---- MODULE Spec2Model ----
(***************************************************************************)
(* Habit Lightly: the habit tracker component (Home, src/unnamed/part_003),*)
(* its date-key arithmetic and derived statistics, and the weekly-days     *)
(* page (Page, src/habit-lightly/src/app/page.tsx).                        *)
(*                                                                         *)
(* Representation.  A date key "YYYY-MM-DD" is the triple <<Y, M, D>> of   *)
(* the numbers that key.split("-").map(Number) yields; a JS Date at local  *)
(* midnight is its day number (days since 1970-01-01).  A habit name is a  *)
(* sequence of one-character strings.  An array is a sequence; the `days`  *)
(* object is a function whose DOMAIN is the set of keys present.  The      *)
(* React state `null` is NullState.  color, createdAt and lastSeen are     *)
(* carried by no operation's condition and are left out of the records.    *)
(***************************************************************************)
EXTENDS Integers, Sequences, FiniteSets, TLC

\* ------------------------------------------------------------------ bounds

\* handler invocations explored per behaviour
MaxOps == 3

\* days of recorded history given to getStreak
StreakWindow == 6

\* days of initialDays the weekly-days page is modelled with
WkDays == 2

\* habits of each day of initialDays
WkHabits == 3

\* iterations of getStreak's loop followed in one call
MaxStreak == 8

\* ------------------------------------------------------- date-key utilities

\* Number(part) of a part of a key that is not a number, or is missing
NaN == -1

\* "NaN-NaN-NaN", the key of an invalid Date
NaNKey == <<NaN, NaN, NaN>>

\* new Date(y, m - 1, d): the day number of a civil date; months and days
\* outside their range carry over, and a year 0..99 is taken as 1900 + year,
\* as the Date constructor does.
DaysFromCivil(y0, m0, d) ==
    LET yr  == IF y0 \in 0..99 THEN 1900 + y0 ELSE y0
        yc  == yr + ((m0 - 1) \div 12)
        m   == ((m0 - 1) % 12) + 1
        y   == IF m <= 2 THEN yc - 1 ELSE yc
        era == y \div 400
        yoe == y - era * 400
        mp  == IF m > 2 THEN m - 3 ELSE m + 9
        doy == ((153 * mp + 2) \div 5)
        doe == yoe * 365 + (yoe \div 4) - (yoe \div 100) + doy
    IN  era * 146097 + doe - 719468 + (d - 1)

\* getFullYear / getMonth + 1 / getDate of the Date with day number z
CivilFromDays(z0) ==
    LET z   == z0 + 719468
        era == z \div 146097
        doe == z - era * 146097
        yoe == (doe - (doe \div 1460) + (doe \div 36524) - (doe \div 146096)) \div 365
        doy == doe - (365 * yoe + (yoe \div 4) - (yoe \div 100))
        mp  == (5 * doy + 2) \div 153
        d   == doy - ((153 * mp + 2) \div 5) + 1
        m   == IF mp < 10 THEN mp + 3 ELSE mp - 9
        y   == yoe + era * 400
    IN  <<IF m <= 2 THEN y + 1 ELSE y, m, d>>

\* toLocalDateKey(d): the key of the Date with day number z
toLocalDateKey(z) == CivilFromDays(z)

\* shiftLocalDateKey(key, days): a part that is NaN makes the Date invalid,
\* setDate leaves it invalid, and its key is "NaN-NaN-NaN"
shiftLocalDateKey(key, days) ==
    IF key[1] = NaN \/ key[2] = NaN \/ key[3] = NaN
    THEN NaNKey
    ELSE LET dt == DaysFromCivil(key[1], key[2], key[3])
         IN  toLocalDateKey(dt + days)

\* ------------------------------------------------------ date keys as text

Digits == <<"0", "1", "2", "3", "4", "5", "6", "7", "8", "9">>

RECURSIVE StringOf(_)
\* String(n) of a number n >= 0, or of NaN
StringOf(n) ==
    IF n = NaN THEN <<"N", "a", "N">>
    ELSE IF n < 10 THEN <<Digits[n + 1]>>
    ELSE StringOf(n \div 10) \o <<Digits[(n % 10) + 1]>>

\* s.padStart(2, "0")
PadStart2(s) == IF Len(s) < 2 THEN <<"0">> \o s ELSE s

\* the template string of toLocalDateKey (lines 53-56): the year as it
\* prints, the month and the day padded to two characters
formatKey(key) ==
    StringOf(key[1]) \o <<"-">> \o PadStart2(StringOf(key[2])) \o <<"-">>
        \o PadStart2(StringOf(key[3]))

RECURSIVE Split(_)
\* text.split("-")
Split(text) ==
    IF \A i \in 1..Len(text) : text[i] # "-" THEN <<text>>
    ELSE LET i == CHOOSE j \in 1..Len(text) :
                      text[j] = "-" /\ \A h \in 1..(j - 1) : text[h] # "-"
         IN  <<SubSeq(text, 1, i - 1)>> \o Split(SubSeq(text, i + 1, Len(text)))

IsDigit(c) == \E i \in 1..10 : Digits[i] = c

RECURSIVE NumberOf(_)
\* Number(part) of a string of decimal digits ("" is 0); NaN otherwise
NumberOf(part) ==
    IF part = <<>> THEN 0
    ELSE IF \E i \in 1..Len(part) : ~IsDigit(part[i]) THEN NaN
    ELSE 10 * NumberOf(SubSeq(part, 1, Len(part) - 1))
         + ((CHOOSE i \in 1..10 : Digits[i] = part[Len(part)]) - 1)

\* const [y, m, d] = key.split("-").map(Number) (line 60): a missing part is
\* undefined, which makes the Date invalid as NaN does
parseKey(text) ==
    LET parts == Split(text)
    IN  [i \in 1..3 |-> IF i <= Len(parts) THEN NumberOf(parts[i]) ELSE NaN]

\* shiftLocalDateKey on the keys as the strings they are
shiftLocalDateKeyText(text, days) == formatKey(shiftLocalDateKey(parseKey(text), days))

\* ------------------------------------------------------------ array helpers

RECURSIVE Filter(_, _)
\* arr.filter(x => x # v)
Filter(arr, v) ==
    IF arr = <<>> THEN <<>>
    ELSE IF Head(arr) = v THEN Filter(Tail(arr), v)
         ELSE <<Head(arr)>> \o Filter(Tail(arr), v)

\* arr.includes(v)
Includes(arr, v) == \E i \in 1..Len(arr) : arr[i] = v

RECURSIVE SetOrder(_)
\* [...new Set(arr)]: the distinct elements in order of first occurrence
SetOrder(arr) ==
    IF arr = <<>> THEN <<>>
    ELSE <<Head(arr)>> \o SetOrder(Filter(Tail(arr), Head(arr)))

\* s.days[key] || []
DayArr(days, key) == IF key \in DOMAIN days THEN days[key] ELSE <<>>

\* { ...days, [key]: arr }
WithDay(days, key, arr) ==
    [k \in (DOMAIN days) \cup {key} |-> IF k = key THEN arr ELSE days[k]]

\* ------------------------------------------------------------------ strings

IsSpace(c) == c = " "

RECURSIVE TrimStart(_)
TrimStart(s) ==
    IF s # <<>> /\ IsSpace(Head(s)) THEN TrimStart(Tail(s)) ELSE s

RECURSIVE TrimEnd(_)
TrimEnd(s) ==
    IF s # <<>> /\ IsSpace(s[Len(s)]) THEN TrimEnd(SubSeq(s, 1, Len(s) - 1)) ELSE s

\* String.prototype.trim
Trim(s) == TrimEnd(TrimStart(s))

LowerChar(c) ==
    CASE c = "H" -> "h"
      [] c = "C" -> "c"
      [] c = "I" -> "i"
      [] c = "N" -> "n"
      [] c = "K" -> "k"
      [] c = "E" -> "e"
      [] OTHER   -> c

\* String.prototype.toLowerCase
ToLowerCase(s) == [i \in 1..Len(s) |-> LowerChar(s[i])]

NameCheckIn == <<"C", "h", "e", "c", "k", "-", "i", "n">>
NameHydrate == <<"H", "y", "d", "r", "a", "t", "e">>

\* what the user may have typed in the name input when Add is pressed
InputNames ==
    { <<>>,
      <<" ", " ">>,
      NameHydrate,
      <<" ", "h", "y", "d", "r", "a", "t", "e", " ">>,
      <<"C", "H", "E", "C", "K", "-", "I", "N">> }

\* -------------------------------------------------------------- the tracker

VARIABLES
    state,          \* useState<State | null>: NullState or [userId, habits, days]
    newHabitName,   \* the text of the name input
    todayKey,       \* toLocalDateKey() of the render
    storage,        \* localStorage[LS_KEY]
    saveTimer,      \* TRUE while the debounced save is pending
    nextId,         \* uid(): the next fresh identifier
    ops,            \* handler invocations so far
    lastOp,         \* the last step taken and its arguments
    loop,           \* one call of getStreak: its arguments, locals and position
    page,           \* the weekly-days page: its state array and the objects in it
    trip            \* one shift of a date key and the shift back

NullState == [null |-> TRUE]
IsNull(s) == "null" \in DOMAIN s

\* localStorage.getItem(LS_KEY): null, a string JSON.parse rejects, or the
\* JSON.stringify of a State
Absent      == [kind |-> "absent"]
Unparseable == [kind |-> "unparseable"]
Blob(s)     == [kind |-> "state", value |-> s]

\* a State saved by an earlier session: one active habit, one archived habit
\* that was completed on the day before 2024-03-01
SavedSession ==
    [userId |-> 1,
     habits |-> << [id |-> 2, name |-> NameCheckIn, archived |-> FALSE],
                   [id |-> 3, name |-> <<"R", "e", "a", "d">>, archived |-> TRUE] >>,
     days   |-> [k \in {<<2024, 2, 29>>} |-> <<3, 2>>]]

\* the days on which the page may be rendered: around a leap day and a new year
RenderDays == { <<2024, 3, 1>>, <<2024, 1, 1>> }

\* hydrate with the parse-failure fallback (no default habit) used for the
\* first run too
hydrateNoDefault(item, id1, id2) ==
    IF item.kind = "state" THEN item.value
    ELSE [userId |-> id1, habits |-> << >>, days |-> << >>]

\* the effect of lines 118-149 on the state, given the stored item and two
\* fresh identifiers
hydrate(item, id1, id2) ==
    IF item.kind = "state" THEN item.value
    ELSE IF item.kind = "absent"
    THEN [userId |-> id1,
          habits |-> << [id |-> id2, name |-> NameCheckIn, archived |-> FALSE] >>,
          days   |-> << >>]
    ELSE [userId |-> id1, habits |-> << >>, days |-> << >>]

\* uid() calls made by hydrate
hydrateUids(item) ==
    IF item.kind = "state" THEN 0 ELSE IF item.kind = "absent" THEN 2 ELSE 1

\* addHabit comparing names as typed, without toLowerCase
addHabitCaseSensitive(s, name, id) ==
    IF IsNull(s) THEN s
    ELSE LET exists == \E i \in 1..Len(s.habits) : s.habits[i].name = name
             newHabit == [id |-> id, name |-> name, archived |-> FALSE]
         IN  [s EXCEPT !.habits = IF exists THEN s.habits
                                  ELSE Append(s.habits, newHabit)]

\* the updater of addHabit, for the trimmed name and a fresh identifier
addHabit(s, name, id) ==
    IF IsNull(s) THEN s
    ELSE LET exists == \E i \in 1..Len(s.habits) :
                           ToLowerCase(s.habits[i].name) = ToLowerCase(name)
             newHabit == [id |-> id, name |-> name, archived |-> FALSE]
         IN  [s EXCEPT !.habits = IF exists THEN s.habits
                                  ELSE Append(s.habits, newHabit)]

\* s.habits.filter(h => h.id !== id)
FilterHabits(habits, id) == SelectSeq(habits, LAMBDA h : h.id # id)

\* deleteHabit without the purge of the day records
deleteHabitKeepsDays(s, id) ==
    IF IsNull(s) THEN s
    ELSE [s EXCEPT !.habits = FilterHabits(s.habits, id)]

\* the updater of deleteHabit
deleteHabit(s, id) ==
    IF IsNull(s) THEN s
    ELSE [s EXCEPT !.habits = FilterHabits(s.habits, id),
                   !.days   = [k \in DOMAIN s.days |-> Filter(s.days[k], id)]]

\* toggleToday without the delete branch
toggleTodayAlwaysAdds(s, habitId, key) ==
    IF IsNull(s) THEN s
    ELSE LET current == SetOrder(DayArr(s.days, key))
             next    == IF Includes(current, habitId) THEN current
                        ELSE Append(current, habitId)
         IN  [s EXCEPT !.days = WithDay(s.days, key, next)]

\* the updater of toggleToday, for the render's todayKey
toggleToday(s, habitId, key) ==
    IF IsNull(s) THEN s
    ELSE LET current == SetOrder(DayArr(s.days, key))
             next    == IF Includes(current, habitId)
                        THEN Filter(current, habitId)
                        ELSE Append(current, habitId)
         IN  [s EXCEPT !.days = WithDay(s.days, key, next)]

\* the updater of markDay
markDay(s, habitId, dayKey, done) ==
    IF IsNull(s) THEN s
    ELSE LET current == SetOrder(DayArr(s.days, dayKey))
             next    == IF done
                        THEN (IF Includes(current, habitId) THEN current
                              ELSE Append(current, habitId))
                        ELSE Filter(current, habitId)
         IN  [s EXCEPT !.days = WithDay(s.days, dayKey, next)]

\* ------------------------------------------------------- derived statistics

\* activeHabits without the archived filter
activeHabitsAll(s) == IF IsNull(s) THEN <<>> ELSE s.habits

\* (state?.habits || []).filter(h => !h.archived)
activeHabits(s) ==
    IF IsNull(s) THEN <<>> ELSE SelectSeq(s.habits, LAMBDA h : ~h.archived)

\* new Set(state?.days?.[todayKey] || [])
completedToday(s, key) ==
    IF IsNull(s) THEN {}
    ELSE {DayArr(s.days, key)[i] : i \in 1..Len(DayArr(s.days, key))}

\* Math.round(n / d) for n >= 0, d > 0: halves round up
MathRound(n, d) == (2 * n + d) \div (2 * d)

todayProgress(s, key) ==
    LET active == activeHabits(s)
        total  == Len(active)
        done   == Cardinality({id \in completedToday(s, key) :
                                  \E i \in 1..Len(active) : active[i].id = id})
        pct    == IF total = 0 THEN 0 ELSE MathRound(done * 100, total)
    IN  [total |-> total, done |-> done, pct |-> pct]

\* shiftLocalDateKey(todayKey, -i) for i = 6 .. 0
weeklyKeys(key) == [j \in 1..7 |-> shiftLocalDateKey(key, -(7 - j))]

\* state.days[k]?.length || 0 for each weekly key
weeklyCounts(s, key) ==
    [j \in 1..7 |-> IF IsNull(s) THEN 0 ELSE Len(DayArr(s.days, weeklyKeys(key)[j]))]

\* the loop condition taking any completion of the day for the habit's
streakContinuesAnyHabit(days, cursor, habitId) ==
    cursor \in DOMAIN days /\ days[cursor] # <<>>

\* days[cursor]?.includes(habitId), the condition of getStreak's loop
streakContinues(days, cursor, habitId) ==
    cursor \in DOMAIN days /\ Includes(days[cursor], habitId)

RECURSIVE getStreak(_, _, _)
\* the while loop of getStreak, one unfolding per iteration
getStreak(habitId, days, cursor) ==
    IF streakContinues(days, cursor, habitId)
    THEN 1 + getStreak(habitId, days, shiftLocalDateKey(cursor, -1))
    ELSE 0

streakFor(s, habitId, key) == IF IsNull(s) THEN 0 ELSE getStreak(habitId, s.days, key)

\* ------------------------------------------------------ the tracker's steps

vars == <<state, newHabitName, todayKey, storage, saveTimer, nextId, ops, lastOp,
          loop, page, trip>>

Op(name, id, key, done, text) ==
    [op |-> name, id |-> id, key |-> key, done |-> done, text |-> text]

NoKey == <<0, 0, 0>>

\* identifiers a handler may be called with: the unallocated 0, the habits',
\* and those found in the day records
HabitIds(s) == {s.habits[i].id : i \in 1..Len(s.habits)}
RecordedIds(s) == UNION {{s.days[k][i] : i \in 1..Len(s.days[k])} : k \in DOMAIN s.days}
CallIds(s) == IF IsNull(s) THEN {0} ELSE {0} \cup HabitIds(s) \cup RecordedIds(s)

\* day keys markDay may be called with: today and the day before
CallKeys(key) == {key, shiftLocalDateKey(key, -1)}

\* what the handler addHabit makes of the state (lines 186-204)
addHabitHandler(s, text, id) ==
    LET name == Trim(text)
    IN  IF name = <<>> THEN s ELSE addHabit(s, name, id)

\* the mount effect (lines 118-149)
Hydrate ==
    /\ IsNull(state)
    /\ state' = hydrate(storage, nextId, nextId + 1)
    /\ nextId' = nextId + hydrateUids(storage)
    /\ saveTimer' = TRUE
    /\ lastOp' = Op("hydrate", 0, NoKey, FALSE, <<>>)
    /\ UNCHANGED <<newHabitName, todayKey, storage, ops, loop, page, trip>>

\* the debounced save fires (lines 152-156)
Persist ==
    /\ ~IsNull(state)
    /\ saveTimer
    /\ storage' = Blob(state)
    /\ saveTimer' = FALSE
    /\ lastOp' = Op("persist", 0, NoKey, FALSE, <<>>)
    /\ UNCHANGED <<state, newHabitName, todayKey, nextId, ops, loop, page, trip>>

\* the page is loaded again: a pending save is lost with the old page
Reload ==
    /\ ~IsNull(state)
    /\ ops < MaxOps
    /\ state' = NullState
    /\ newHabitName' = <<>>
    /\ saveTimer' = FALSE
    /\ ops' = ops + 1
    /\ lastOp' = Op("reload", 0, NoKey, FALSE, <<>>)
    /\ UNCHANGED <<todayKey, storage, nextId, loop, page, trip>>

\* the name input holds `text` (onChange, line 292) and Add is pressed:
\* addHabit (lines 186-204)
AddHabit(text) ==
    /\ ~IsNull(state)
    /\ ops < MaxOps
    /\ state' = addHabitHandler(state, text, nextId)
    /\ IF Trim(text) = <<>>
       THEN /\ newHabitName' = text
            /\ UNCHANGED <<nextId, saveTimer, trip>>
       ELSE /\ newHabitName' = <<>>
            /\ nextId' = nextId + 1
            /\ saveTimer' = TRUE
    /\ ops' = ops + 1
    /\ lastOp' = Op("addHabit", nextId, NoKey, FALSE, text)
    /\ UNCHANGED <<todayKey, storage, loop, page, trip>>

\* deleteHabit (lines 206-219)
DeleteHabit(id) ==
    /\ ~IsNull(state)
    /\ ops < MaxOps
    /\ state' = deleteHabit(state, id)
    /\ saveTimer' = TRUE
    /\ ops' = ops + 1
    /\ lastOp' = Op("deleteHabit", id, NoKey, FALSE, <<>>)
    /\ UNCHANGED <<newHabitName, todayKey, storage, nextId, loop, page, trip>>

\* toggleToday (lines 221-232)
ToggleToday(habitId) ==
    /\ ~IsNull(state)
    /\ ops < MaxOps
    /\ state' = toggleToday(state, habitId, todayKey)
    /\ saveTimer' = TRUE
    /\ ops' = ops + 1
    /\ lastOp' = Op("toggleToday", habitId, todayKey, FALSE, <<>>)
    /\ UNCHANGED <<newHabitName, todayKey, storage, nextId, loop, page, trip>>

\* markDay (lines 234-245)
MarkDay(habitId, dayKey, done) ==
    /\ ~IsNull(state)
    /\ ops < MaxOps
    /\ state' = markDay(state, habitId, dayKey, done)
    /\ saveTimer' = TRUE
    /\ ops' = ops + 1
    /\ lastOp' = Op("markDay", habitId, dayKey, done, <<>>)
    /\ UNCHANGED <<newHabitName, todayKey, storage, nextId, loop, page, trip>>

Idle == [idle |-> TRUE]

Init ==
    /\ state = NullState
    /\ newHabitName = <<>>
    /\ todayKey \in RenderDays
    /\ storage \in {Absent, Unparseable, Blob(SavedSession)}
    /\ saveTimer = FALSE
    /\ nextId = 4
    /\ ops = 0
    /\ trip = Idle
    /\ lastOp = Op("mount", 0, NoKey, FALSE, <<>>)
    /\ loop = Idle
    /\ page = Idle

Next ==
    \/ Hydrate
    \/ Persist
    \/ Reload
    \/ \E text \in InputNames : AddHabit(text)
    \/ \E id \in CallIds(state) : DeleteHabit(id)
    \/ \E id \in CallIds(state) : ToggleToday(id)
    \/ \E id \in CallIds(state), k \in CallKeys(todayKey), done \in BOOLEAN :
           MarkDay(id, k, done)

Spec == Init /\ [][Next]_vars

\* ------------------------------------------------------- one call of getStreak

\* the calendar, backwards from 2024-03-02 over the leap day
CalendarBack ==
    << <<2024, 3, 2>>, <<2024, 3, 1>>, <<2024, 2, 29>>, <<2024, 2, 28>>,
       <<2024, 2, 27>>, <<2024, 2, 26>>, <<2024, 2, 25>>, <<2024, 2, 24>>,
       <<2024, 2, 23>>, <<2024, 2, 22>> >>

\* recorded histories: each of the last StreakWindow days has no entry, or
\* holds habit 2 alone, or habits 2 and 1
Histories ==
    { [k \in {CalendarBack[i] : i \in {j \in 1..StreakWindow : f[j] # "none"}} |->
          IF f[CHOOSE i \in 1..StreakWindow : CalendarBack[i] = k] = "other"
          THEN <<2>> ELSE <<2, 1>>] :
      f \in [1..StreakWindow -> {"none", "other", "both"}] }

\* getStreak(habitId, days, todayKey) is entered (lines 66-68)
StreakCall(habitId, days, key) ==
    [habitId |-> habitId, days |-> days, todayKey |-> key,
     streak |-> 0, cursor |-> key, pc |-> "while"]

\* one iteration of the loop (lines 71-74)
StreakIter ==
    /\ loop.pc = "while"
    /\ loop.streak < MaxStreak
    /\ streakContinues(loop.days, loop.cursor, loop.habitId)
    /\ loop' = [loop EXCEPT !.streak = @ + 1,
                            !.cursor = shiftLocalDateKey(@, -1)]
    /\ UNCHANGED <<state, newHabitName, todayKey, storage, saveTimer, nextId, ops,
                   lastOp, page, trip>>

\* the loop ends and the count is returned (lines 71, 75)
StreakReturn ==
    /\ loop.pc = "while"
    /\ ~streakContinues(loop.days, loop.cursor, loop.habitId)
    /\ loop' = [loop EXCEPT !.pc = "return"]
    /\ UNCHANGED <<state, newHabitName, todayKey, storage, saveTimer, nextId, ops,
                   lastOp, page, trip>>

StreakInit ==
    /\ state = NullState
    /\ newHabitName = <<>>
    /\ todayKey = CalendarBack[1]
    /\ storage = Absent
    /\ saveTimer = FALSE
    /\ nextId = 4
    /\ ops = 0
    /\ trip = Idle
    /\ lastOp = Op("mount", 0, NoKey, FALSE, <<>>)
    /\ loop \in {StreakCall(1, days, CalendarBack[a]) : days \in Histories, a \in 1..2}
    /\ page = Idle

StreakNext == StreakIter \/ StreakReturn

StreakSpec == StreakInit /\ [][StreakNext]_vars

\* keys any caller or any stored blob may hold: two well-formed ones, "2024-02"
\* (no day part) and "NaN-NaN-NaN"
AnyKeys == { <<2024, 3, 1>>, <<2024, 2, 29>>, <<2024, 2, NaN>>, NaNKey }

\* recorded histories over AnyKeys: each key has no entry, or holds habit 2
\* alone, or habits 2 and 1
AnyHistories ==
    { [k \in {x \in AnyKeys : f[x] # "none"} |->
          IF f[k] = "other" THEN <<2>> ELSE <<2, 1>>] :
      f \in [AnyKeys -> {"none", "other", "both"}] }

\* getStreak called with any of these keys on any of these histories
StreakAnyInit ==
    /\ state = NullState
    /\ newHabitName = <<>>
    /\ todayKey = CalendarBack[1]
    /\ storage = Absent
    /\ saveTimer = FALSE
    /\ nextId = 4
    /\ ops = 0
    /\ trip = Idle
    /\ lastOp = Op("mount", 0, NoKey, FALSE, <<>>)
    /\ loop \in {StreakCall(1, days, k) : days \in AnyHistories, k \in AnyKeys}
    /\ page = Idle

StreakAnySpec == StreakAnyInit /\ [][StreakNext]_vars

\* --------------------------------------------------------- the weekly-days page

\* an array's value: the done flags of the habit objects its Day objects hold
Deep(arr, heap) == [d \in 1..Len(arr) |-> heap[arr[d]]]

\* initialDays (lines 20-28): Day objects 1..WkDays, every habit not done
initialDays == [d \in 1..WkDays |-> [h \in 1..WkHabits |-> FALSE]]

\* the updater of toggleHabit (lines 43-47): `updated` is a new array of the
\* same Day objects, and the habit object is written in place
toggleHabit(heap, prev, dayIndex, habitIndex) ==
    [heap    |-> [heap EXCEPT ![prev[dayIndex]][habitIndex] = ~@],
     updated |-> prev]

\* the page is mounted: the two effects of lines 33-40
PageMount ==
    /\ ~page.mounted
    /\ page' = [page EXCEPT
                   !.mounted = TRUE,
                   !.heap = IF page.saved.kind = "days" THEN page.saved.value
                            ELSE initialDays,
                   !.saved = [kind |-> "days",
                              value |-> IF page.saved.kind = "days"
                                        THEN page.saved.value ELSE initialDays]]
    /\ UNCHANGED <<state, newHabitName, todayKey, storage, saveTimer, nextId, ops,
                   lastOp, loop, trip>>

\* toggleHabit(dayIndex, habitIndex) (lines 42-48), then the save of line 39
ToggleHabit(dayIndex, habitIndex) ==
    /\ page.mounted
    /\ LET r == toggleHabit(page.heap, page.arr, dayIndex, habitIndex)
       IN  page' = [page EXCEPT
                       !.heap = r.heap,
                       !.arr = r.updated,
                       !.saved = [kind |-> "days", value |-> Deep(r.updated, r.heap)],
                       !.prevBefore = Deep(page.arr, page.heap),
                       !.prevAfter = Deep(page.arr, r.heap),
                       !.last = <<dayIndex, habitIndex>>]
    /\ UNCHANGED <<state, newHabitName, todayKey, storage, saveTimer, nextId, ops,
                   lastOp, loop, trip>>

\* the page is loaded again
PageReload ==
    /\ page.mounted
    /\ page' = [page EXCEPT !.mounted = FALSE, !.heap = initialDays,
                            !.prevBefore = initialDays, !.prevAfter = initialDays,
                            !.last = <<0, 0>>]
    /\ UNCHANGED <<state, newHabitName, todayKey, storage, saveTimer, nextId, ops,
                   lastOp, loop, trip>>

WeeklyInit ==
    /\ state = NullState
    /\ newHabitName = <<>>
    /\ todayKey = CalendarBack[1]
    /\ storage = Absent
    /\ saveTimer = FALSE
    /\ nextId = 4
    /\ ops = 0
    /\ trip = Idle
    /\ lastOp = Op("mount", 0, NoKey, FALSE, <<>>)
    /\ loop = Idle
    /\ page = [mounted |-> FALSE, arr |-> [d \in 1..WkDays |-> d], heap |-> initialDays,
               saved |-> [kind |-> "absent"], prevBefore |-> initialDays,
               prevAfter |-> initialDays, last |-> <<0, 0>>]

WeeklyNext ==
    \/ PageMount
    \/ \E d \in 1..WkDays, h \in 1..WkHabits : ToggleHabit(d, h)
    \/ PageReload

WeeklySpec == WeeklyInit /\ [][WeeklyNext]_vars

\* ------------------------------------------- a shift of a key and the shift back

\* valid YYYY-MM-DD keys: around a leap day, a year's end, century years, and
\* years before 1000, which are written with leading zeros
TripKeys ==
    { formatKey(k) : k \in { <<2024, 2, 29>>, <<2024, 3, 1>>, <<2023, 12, 31>>,
                             <<2024, 1, 1>>, <<2000, 2, 29>>, <<2100, 2, 28>>,
                             <<1900, 3, 1>>, <<1000, 1, 1>> } }
    \cup { <<"0">> \o formatKey(k) : k \in { <<999, 12, 31>>, <<100, 1, 1>> } }

\* numbers of days within [-3650, 3650]
TripShifts == {-3650, -366, -365, -31, -1, 0, 1, 29, 365, 366, 3650}

\* shift(k, n)
ShiftThere ==
    /\ trip.pc = "start"
    /\ trip' = [trip EXCEPT !.there = shiftLocalDateKeyText(trip.key, trip.days),
                            !.pc = "there"]
    /\ UNCHANGED <<state, newHabitName, todayKey, storage, saveTimer, nextId, ops,
                   lastOp, loop, page>>

\* shift(shift(k, n), -n)
ShiftBack ==
    /\ trip.pc = "there"
    /\ trip' = [trip EXCEPT !.back = shiftLocalDateKeyText(trip.there, -trip.days),
                            !.pc = "back"]
    /\ UNCHANGED <<state, newHabitName, todayKey, storage, saveTimer, nextId, ops,
                   lastOp, loop, page>>

TripInit ==
    /\ state = NullState
    /\ newHabitName = <<>>
    /\ todayKey = CalendarBack[1]
    /\ storage = Absent
    /\ saveTimer = FALSE
    /\ nextId = 4
    /\ ops = 0
    /\ lastOp = Op("mount", 0, NoKey, FALSE, <<>>)
    /\ loop = Idle
    /\ page = Idle
    /\ trip \in { [key |-> k, days |-> n, there |-> <<>>, back |-> <<>>, pc |-> "start"] :
                  k \in TripKeys, n \in TripShifts }

TripNext == ShiftThere \/ ShiftBack

TripSpec == TripInit /\ [][TripNext]_vars

\* the first run only: nothing is stored when the page is first loaded
FirstRunInit == Init /\ storage = Absent

FirstRunSpec == FirstRunInit /\ [][Next]_vars

\* ------------------------------------------------------------------- claims

\* the elements of an array, as a set
AsSet(arr) == {arr[i] : i \in 1..Len(arr)}

\* two states are equal when DayRecords are compared as sets and a key with no
\* entry is an empty set
SameState(a, b) ==
    /\ a.userId = b.userId
    /\ a.habits = b.habits
    /\ \A k \in (DOMAIN a.days) \cup (DOMAIN b.days) :
           AsSet(DayArr(a.days, k)) = AsSet(DayArr(b.days, k))

\* `after` is `before` with exactly the elements at the indices in Drop removed
IsRemoval(after, before, Drop) ==
    LET Kept == (1..Len(before)) \ Drop
    IN  /\ Len(after) = Cardinality(Kept)
        /\ \A i \in Kept : after[Cardinality({j \in Kept : j <= i})] = before[i]

\* the date keys a claim is tried on: those recorded, today and the day before
ClaimKeys == (DOMAIN state.days) \cup CallKeys(todayKey)

\* C1: toggling the same existing habit twice for the same date key gives back
\* the state (DayRecords as sets, a missing key as the empty set); one toggle
\* leaves habits, userId and every other date's DayRecord as they were.
C1_ToggleSelfInverse ==
    ~IsNull(state) =>
        \A id \in HabitIds(state), d \in ClaimKeys :
            LET once  == toggleToday(state, id, d)
                twice == toggleToday(once, id, d)
            IN  /\ SameState(twice, state)
                /\ once.habits = state.habits
                /\ once.userId = state.userId
                /\ (DOMAIN once.days) \ {d} = (DOMAIN state.days) \ {d}
                /\ \A k \in (DOMAIN state.days) \ {d} : once.days[k] = state.days[k]
                /\ (id \in AsSet(DayArr(once.days, d))) # (id \in AsSet(DayArr(state.days, d)))

\* C1 witness: a habit was toggled off again for today, next to another completion
C1_Witness ==
    /\ ~IsNull(state)
    /\ lastOp.op = "toggleToday"
    /\ lastOp.id \in HabitIds(state)
    /\ todayKey \in DOMAIN state.days
    /\ lastOp.id \notin AsSet(state.days[todayKey])
    /\ state.days[todayKey] # <<>>

\* C2: deleteHabit removes the habit and purges its id from every DayRecord in
\* one step, keeps every other habit in order and every other completion, and
\* a weekly day whose only completion was that id then counts 0.
C2_DeleteHabit ==
    ~IsNull(state) =>
        \A id \in CallIds(state) :
            LET t == deleteHabit(state, id)
            IN  /\ id \notin HabitIds(t)
                /\ IsRemoval(t.habits, state.habits,
                             {i \in 1..Len(state.habits) : state.habits[i].id = id})
                /\ t.userId = state.userId
                /\ DOMAIN t.days = DOMAIN state.days
                /\ \A k \in DOMAIN state.days :
                       IsRemoval(t.days[k], state.days[k],
                                 {i \in 1..Len(state.days[k]) : state.days[k][i] = id})
                /\ \A j \in 1..7 :
                       LET k == weeklyKeys(todayKey)[j]
                       IN  AsSet(DayArr(state.days, k)) = {id}
                               => weeklyCounts(t, todayKey)[j] = 0

\* C2 witness: a habit with a completion in the weekly window was deleted; its
\* day is now empty, and another day still holds another habit's completion
C2_Witness ==
    /\ ~IsNull(state)
    /\ lastOp.op = "deleteHabit"
    /\ lastOp.id # 0
    /\ lastOp.id \notin HabitIds(state)
    /\ \E j \in 1..7 :
           /\ weeklyKeys(todayKey)[j] \in DOMAIN state.days
           /\ state.days[weeklyKeys(todayKey)[j]] = <<>>
    /\ \E k \in DOMAIN state.days : state.days[k] # <<>>
    /\ state.habits # <<>>

\* C3: in every state reached from the first run, every id in a DayRecord is
\* the id of a habit in habits.
C3_NoOrphans ==
    ~IsNull(state) => RecordedIds(state) \subseteq HabitIds(state)

\* C5: addHabit with a name that trims to nothing, or that matches an existing
\* habit's name without regard to case, leaves the state as it was; otherwise
\* it appends exactly one habit; so no two habits ever share a name up to case.
C5_AddHabit ==
    ~IsNull(state) =>
        /\ \A text \in InputNames :
               LET name == Trim(text)
                   t    == addHabitHandler(state, text, nextId)
                   dup  == \E i \in 1..Len(state.habits) :
                               ToLowerCase(state.habits[i].name) = ToLowerCase(name)
               IN  /\ t.userId = state.userId
                   /\ t.days = state.days
                   /\ IF name = <<>> \/ dup
                      THEN t.habits = state.habits
                      ELSE /\ Len(t.habits) = Len(state.habits) + 1
                           /\ SubSeq(t.habits, 1, Len(state.habits)) = state.habits
                           /\ t.habits[Len(t.habits)].name = name
                           /\ t.habits[Len(t.habits)].id \notin HabitIds(state)
        /\ \A i, j \in 1..Len(state.habits) :
               i # j => ToLowerCase(state.habits[i].name) # ToLowerCase(state.habits[j].name)

\* C5 witness: Add was pressed on a name that differs from an existing habit's
\* only in case, next to a habit that an earlier Add appended
C5_Witness ==
    /\ ~IsNull(state)
    /\ lastOp.op = "addHabit"
    /\ Trim(lastOp.text) # <<>>
    /\ \A i \in 1..Len(state.habits) : state.habits[i].name # Trim(lastOp.text)
    /\ \E i \in 1..Len(state.habits) :
           ToLowerCase(state.habits[i].name) = ToLowerCase(Trim(lastOp.text))
    /\ \E i \in 1..Len(state.habits) : state.habits[i].name = NameHydrate

\* what C6 says todayProgress is
ProgressOf(s, key) ==
    LET Active  == IF IsNull(s) THEN {}
                   ELSE {i \in 1..Len(s.habits) : ~s.habits[i].archived}
        Present == {i \in Active : s.habits[i].id \in AsSet(DayArr(s.days, key))}
    IN  [total |-> Cardinality(Active), done |-> Cardinality(Present)]

\* C6: total is the number of non-archived habits, done the number of them in
\* today's DayRecord, percent the nearest integer to done / total * 100 (halves
\* up), 0 when total is 0; so done <= total and 0 <= percent <= 100.
C6_TodayProgress ==
    LET p == todayProgress(state, todayKey)
        q == ProgressOf(state, todayKey)
    IN  /\ p.total = q.total
        /\ p.done = q.done
        /\ p.done <= p.total
        /\ p.pct \in 0..100
        /\ p.total = 0 => p.pct = 0
        /\ p.total > 0 =>
               /\ 2 * p.total * p.pct - p.total <= 200 * p.done
               /\ 200 * p.done < 2 * p.total * p.pct + p.total

\* C6 witness: an archived habit and one of two active habits are completed today
C6_Witness ==
    /\ ~IsNull(state)
    /\ \E i \in 1..Len(state.habits) :
           /\ state.habits[i].archived
           /\ state.habits[i].id \in completedToday(state, todayKey)
    /\ todayProgress(state, todayKey) = [total |-> 2, done |-> 1, pct |-> 50]

\* the state newState(), addHabit("Hydrate"), toggle of that habit for
\* todayKey() ends in: two handler calls after the first run, the second the
\* toggle of the habit named Hydrate
EndToEnd ==
    /\ ~IsNull(state)
    /\ storage = Absent
    /\ ops = 2
    /\ lastOp.op = "toggleToday"
    /\ \E i \in 1..Len(state.habits) :
           /\ state.habits[i].name = NameHydrate
           /\ state.habits[i].id = lastOp.id
    /\ state.days = [k \in {todayKey} |-> <<lastOp.id>>]

\* C7 as stated: after the first run, adding "Hydrate" and toggling it done for
\* today, todayProgress is {total: 1, done: 1, percent: 100} and the streak is 1.
C7_EndToEndAsStated ==
    EndToEnd =>
        /\ todayProgress(state, todayKey) = [total |-> 1, done |-> 1, pct |-> 100]
        /\ streakFor(state, lastOp.id, todayKey) = 1

\* C7 as amended: the first-run state already holds the default habit, so
\* todayProgress is {total: 2, done: 1, percent: 50}; the streak is 1.
C7_EndToEnd ==
    EndToEnd =>
        /\ todayProgress(state, todayKey) = [total |-> 2, done |-> 1, pct |-> 50]
        /\ streakFor(state, lastOp.id, todayKey) = 1

\* C7 witness: the end-to-end run has been made
C7_Witness == EndToEnd /\ state.habits[Len(state.habits)].name = NameHydrate

\* C8: toggleToday and markDay called with an id that no habit has leave the
\* state as it was; the unknown id enters no DayRecord.
C8_UnknownIdNoOp ==
    ~IsNull(state) =>
        \A id \in CallIds(state) \ HabitIds(state), k \in CallKeys(todayKey) :
            /\ SameState(toggleToday(state, id, k), state)
            /\ \A done \in BOOLEAN : SameState(markDay(state, id, k, done), state)

\* C9: when nothing is stored, or what is stored does not parse, hydration ends
\* in the first-run state: one default habit, no days, a fresh userId.
C9_LoadFallback ==
    (lastOp.op = "hydrate" /\ storage.kind \in {"absent", "unparseable"}) =>
        /\ ~IsNull(state)
        /\ Len(state.habits) = 1
        /\ state.habits[1].name = NameCheckIn
        /\ state.days = << >>
        /\ state.userId \notin HabitIds(state)

\* C4: getStreak returns the largest n such that the habit is in the DayRecord
\* of each of the n days shift(asOf, -i), 0 <= i < n: 0 when asOf is not
\* completed, and the scan stops at the first day without the habit.
C4_Streak ==
    loop.pc = "return" =>
        LET a == CHOOSE i \in 1..Len(CalendarBack) : CalendarBack[i] = loop.todayKey
            Completed(i) == loop.habitId \in AsSet(DayArr(loop.days, CalendarBack[a + i]))
        IN  /\ \A i \in 0..loop.streak :
                   shiftLocalDateKey(loop.todayKey, -i) = CalendarBack[a + i]
            /\ \A i \in 0..(loop.streak - 1) : Completed(i)
            /\ ~Completed(loop.streak)

\* C4 witness: 2024-03-02 and the 4 days before it (over the leap day) are
\* completed, 2024-02-26 holds another habit only, and 5 is returned
C4_Witness ==
    /\ loop.pc = "return"
    /\ loop.todayKey = <<2024, 3, 2>>
    /\ loop.streak = 5
    /\ DayArr(loop.days, <<2024, 2, 26>>) = <<2>>

\* C10: a transition leaves the previous state value as it was, nested records
\* included, so the updater applied twice to the same previous state gives what
\* it gives applied once.
C10_CopyOnWrite ==
    (page.mounted /\ page.last # <<0, 0>>) =>
        /\ page.prevAfter = page.prevBefore
        /\ \A d \in 1..WkDays, h \in 1..WkHabits :
               LET once  == toggleHabit(page.heap, page.arr, d, h)
                   twice == toggleHabit(once.heap, page.arr, d, h)
               IN  Deep(twice.updated, twice.heap) = Deep(once.updated, once.heap)

\* C11: the backward scan of getStreak ends for every finite set of DayRecords
\* and every asOf key, malformed keys included.  The scan goes on only over
\* recorded days, so if it ends it has counted no day twice: at every moment
\* the count is at most the number of DayRecords.
C11_StreakTerminates ==
    loop.streak <= Cardinality(DOMAIN loop.days)

\* a key of the form YYYY-MM-DD: four digits, two digits, two digits
WellFormed(text) ==
    /\ Len(text) = 10
    /\ text[5] = "-" /\ text[8] = "-"
    /\ \A i \in {1, 2, 3, 4, 6, 7, 9, 10} : IsDigit(text[i])
    /\ parseKey(text)[2] \in 1..12
    /\ parseKey(text)[3] \in 1..31

\* C12: for every valid YYYY-MM-DD key k and every n in [-3650, 3650],
\* shift(shift(k, n), -n) = k, and shift(k, n) is a well-formed key.
C12_ShiftRoundTrip ==
    /\ trip.pc \in {"there", "back"} => WellFormed(trip.there)
    /\ trip.pc = "back" => trip.back = trip.key

\* the same for the keys whose year, and the year of the shifted key, is
\* 1000 or later
ShiftRoundTripFourDigit ==
    (trip.pc = "back" /\ parseKey(trip.key)[1] >= 1000 /\ parseKey(trip.there)[1] >= 1000) =>
        /\ WellFormed(trip.there)
        /\ trip.back = trip.key
        /\ DaysFromCivil(parseKey(trip.there)[1], parseKey(trip.there)[2],
                         parseKey(trip.there)[3])
             = DaysFromCivil(parseKey(trip.key)[1], parseKey(trip.key)[2],
                             parseKey(trip.key)[3]) + trip.days

====
